---- MODULE Spec2Model ----
(***************************************************************************)
(* Model of the myrt kernel module (src/motor_control_drive/myrt.c): a     *)
(* software PWM generator stepped by an hrtimer, a rising-edge period      *)
(* meter driven by a GPIO interrupt, and a character device whose read     *)
(* returns the measured period and whose write sets the duty cycle.        *)
(*                                                                         *)
(* Text is modelled as sequences of ASCII codes, time as ktime_t           *)
(* nanoseconds.                                                            *)
(***************************************************************************)
EXTENDS Integers, Sequences, FiniteSets, TLC

\* ------------------------------------------------------------ constants

\* counter = (counter + 1) % 100
Steps == 100
\* if (duty_cycle > 100) duty_cycle = 100
DutyMax == 100
\* static int duty_cycle = 50
DutyDefault == 50
\* char msg[16] in myrt_write
MsgSize == 16
\* ktime_us_delta: nanoseconds per microsecond
NsPerUs == 1000
\* int: 32-bit two's complement
IntMax == 2147483647

\* ------------------------------------------------------------ bounds

\* number of rising edges delivered in a behaviour of SpecEdge
MaxEdges == 3

\* ------------------------------------------------------------ text helpers

\* ASCII codes of the characters the inputs use
Ch0 == 48
ChNL == 10
ChNUL == 0
ChPlus == 43
ChMinus == 45

IsDigit(c) == Ch0 <= c /\ c <= Ch0 + 9

\* the C string held in a buffer: the bytes before the first NUL
RECURSIVE CStr(_)
CStr(s) ==
    IF s = <<>> \/ Head(s) = ChNUL THEN <<>>
    ELSE <<Head(s)>> \o CStr(Tail(s))

\* ---- kstrtoint. The kernel accumulates in an unsigned long long and checks
\* the range afterwards; a payload of at most 15 digits never overflows 64
\* bits. The model checker's integers are 32 bits wide, so the magnitude is
\* kept as its digit string, the range checks compare digit strings, and only
\* a value that fits an int is turned into a number.

\* _parse_integer(s, 10, &res): the leading decimal digits of s (rv is
\* their number)
RECURSIVE ParseInteger(_)
ParseInteger(s) ==
    IF s = <<>> \/ ~IsDigit(Head(s)) THEN <<>>
    ELSE <<Head(s)>> \o ParseInteger(Tail(s))

\* a digit string without its leading zeros
RECURSIVE StripZeros(_)
StripZeros(ds) ==
    IF ds # <<>> /\ Head(ds) = Ch0 THEN StripZeros(Tail(ds)) ELSE ds

\* a <= b for digit strings of equal length
RECURSIVE DigitsLeq(_, _)
DigitsLeq(a, b) ==
    IF a = <<>> THEN TRUE
    ELSE IF Head(a) # Head(b) THEN Head(a) < Head(b)
    ELSE DigitsLeq(Tail(a), Tail(b))

\* the magnitude written by the digits ds is at most the one written by lim
MagnitudeLeq(ds, lim) ==
    LET d == StripZeros(ds)
    IN  \/ Len(d) < Len(lim)
        \/ Len(d) = Len(lim) /\ DigitsLeq(d, lim)

\* the number sign * (magnitude written by ds), accumulated on the side of
\* its sign so that INT_MIN is reached without passing INT_MAX + 1
RECURSIVE SignedValue(_, _, _)
SignedValue(ds, sign, acc) ==
    IF ds = <<>> THEN acc
    ELSE SignedValue(Tail(ds), sign, acc * 10 + sign * (Head(ds) - Ch0))

\* the digits of INT_MAX and of -INT_MIN
IntMaxDigits == <<50, 49, 52, 55, 52, 56, 51, 54, 52, 55>>
IntMinDigits == <<50, 49, 52, 55, 52, 56, 51, 54, 52, 56>>

\* _kstrtoull(s, 10, &res): digits, then an optional single newline, then the
\* end of the string; [ok, digits]
KstrToUll(s) ==
    LET ds == ParseInteger(s)
        rest == SubSeq(s, Len(ds) + 1, Len(s))
        rest2 == IF rest # <<>> /\ Head(rest) = ChNL THEN Tail(rest) ELSE rest
    IN  IF Len(ds) = 0 THEN [ok |-> FALSE, digits |-> <<>>]
        ELSE IF rest2 # <<>> THEN [ok |-> FALSE, digits |-> <<>>]
        ELSE [ok |-> TRUE, digits |-> ds]

\* kstrtoll(s, 10, &res): an optional sign before _kstrtoull; [ok, neg, digits]
KstrToLl(s) ==
    IF s # <<>> /\ Head(s) = ChMinus
    THEN LET r == KstrToUll(Tail(s)) IN [ok |-> r.ok, neg |-> TRUE, digits |-> r.digits]
    ELSE IF s # <<>> /\ Head(s) = ChPlus
    THEN LET r == KstrToUll(Tail(s)) IN [ok |-> r.ok, neg |-> FALSE, digits |-> r.digits]
    ELSE LET r == KstrToUll(s) IN [ok |-> r.ok, neg |-> FALSE, digits |-> r.digits]

\* kstrtoll's result narrowed to int: [ok, val], -ERANGE (ok FALSE) unless
\* tmp == (int)tmp
NarrowToInt(r) ==
    IF r.ok /\ MagnitudeLeq(r.digits, IF r.neg THEN IntMinDigits ELSE IntMaxDigits)
    THEN [ok |-> TRUE, val |-> SignedValue(StripZeros(r.digits), IF r.neg THEN -1 ELSE 1, 0)]
    ELSE [ok |-> FALSE, val |-> 0]

\* a parser that reports a failure as success with the value 0, as
\* simple_strtol would
KstrToIntZeroOnError(msg) ==
    LET r == NarrowToInt(KstrToLl(CStr(msg)))
    IN  IF r.ok THEN r ELSE [ok |-> TRUE, val |-> 0]

\* kstrtoint(msg, 10, &duty_cycle): [ok, val]; on failure the destination is
\* not written
KstrToInt(msg) == NarrowToInt(KstrToLl(CStr(msg)))

\* the decimal digits of n, most significant first (%llu)
RECURSIVE Digits(_)
Digits(n) ==
    IF n < 10 THEN <<Ch0 + n>>
    ELSE Append(Digits(n \div 10), Ch0 + (n % 10))

\* "%llu" without the line terminator
FormatNoNewline(n) == Digits(n)

\* snprintf(msg, sizeof(msg), "%llu\n", period_us)
Format(n) == Append(Digits(n), ChNL)

\* ------------------------------------------------------------ inputs

\* the text of a sequence of decimal digit values
Dec(ds) == [i \in 1..Len(ds) |-> Ch0 + ds[i]]

\* "abc", " 75", "7a": payloads kstrtoint rejects
TxtAbc == <<97, 98, 99>>
TxtSp75 == <<32>> \o Dec(<<7, 5>>)
Txt7a == Dec(<<7>>) \o <<97>>

\* write payloads of the sequential caller: in range, out of range, signed,
\* newline-terminated, malformed, beyond int, 15 bytes, 16 bytes and more
WritePayloads ==
    { Dec(<<0>>), Dec(<<1>>), Dec(<<7, 5>>), Dec(<<1, 0, 0>>), Dec(<<1, 0, 1>>),
      Dec(<<1, 5, 0>>), <<ChMinus>> \o Dec(<<5>>), <<ChPlus>> \o Dec(<<3, 0>>),
      Dec(<<7, 5>>) \o <<ChNL>>, Dec(<<7, 5>>) \o <<ChNL, ChNL>>,
      Dec(<<7, 5>>) \o <<ChNUL, 97, 97>>,
      <<>>, <<ChMinus>>, TxtAbc, TxtSp75, Txt7a,
      Dec(<<9, 9, 9, 9, 9, 9, 9, 9, 9, 9, 9>>),
      Dec(<<2, 1, 4, 7, 4, 8, 3, 6, 4, 7>>), Dec(<<2, 1, 4, 7, 4, 8, 3, 6, 4, 8>>),
      <<ChMinus>> \o Dec(<<2, 1, 4, 7, 4, 8, 3, 6, 4, 8>>),
      <<ChMinus>> \o Dec(<<2, 1, 4, 7, 4, 8, 3, 6, 4, 9>>),
      Dec(<<0, 0, 0, 0, 0, 0, 0, 0, 0, 0, 0, 0, 0, 7, 5>>),
      Dec(<<0, 0, 0, 0, 0, 0, 0, 0, 0, 0, 0, 0, 0, 0, 7, 5>>),
      Dec(<<0, 0, 0, 0, 0, 0, 0, 0, 0, 0, 0, 0, 0, 0, 0, 0, 0, 0, 7, 5>>),
      TxtAbc \o TxtAbc \o TxtAbc \o TxtAbc \o TxtAbc \o TxtAbc }

\* write payloads that set the duty cycle under the waveform generator
PwmPayloads ==
    { Dec(<<0>>), Dec(<<1>>), Dec(<<7, 5>>), Dec(<<9, 9>>), Dec(<<1, 0, 0>>),
      Dec(<<1, 5, 0>>), <<ChMinus>> \o Dec(<<5>>), TxtAbc }

\* write payloads of the concurrent callers
RacePayloads ==
    { Dec(<<1, 5, 0>>), <<ChMinus>> \o Dec(<<5>>), TxtAbc,
      Dec(<<0, 0, 0, 0, 0, 0, 0, 0, 0, 0, 0, 0, 0, 0, 7, 5>>) }

\* write payloads of concurrent callers with no tick between them
BatchPayloads ==
    { Dec(<<1, 5, 0>>), <<ChMinus>> \o Dec(<<5>>), TxtAbc, Dec(<<7, 5>>),
      Dec(<<0, 0, 0, 0, 0, 0, 0, 0, 0, 0, 0, 0, 0, 0, 7, 5>>) }

\* concurrent callers of write()
Writers == {1, 2}

\* ktime_get() when the module has finished loading, in ns since boot
StartTimes == {7000}

\* time between two rising edges, in ns
Gaps == {500, 950000, 1000000, 1100000}

\* read() lengths asked for by the caller
ReadLens == {0, 1, 2, 5, 64}

\* what myrt_init acquires, in the order of lines 126-195
Resources == {"chrdev", "class", "device", "gpio_pwm", "gpio_meas", "irq", "timer"}

\* #define PWM_PERIOD_NS 1000000L
PwmPeriodNs == 1000000

\* pwm_period = ktime_set(0, PWM_PERIOD_NS/100), the interval of lines 83 and 192
pwm_period == PwmPeriodNs \div 100

\* upper 32 bits of the clock in us: 0 until 2^32 us (71.6 min) after boot
ClkHighs == {0, 1, 2}

\* time from one rising edge to the next while the module loads and unloads, ns
LifeGaps == {950000}

\* how long after its expiry pwm_timer_callback gets to run, ns
Lates == {0, 2500, 9999, 10000, 10001, 25000}

\* number of ticks followed with their times
MaxTimedTicks == 5

\* ------------------------------------------------------------ state

VARIABLES
    now,         \* the monotonic clock (ktime_get), ns
    last_edge,   \* static ktime_t last_edge
    period_us,   \* static u64 period_us
    duty_cycle,  \* static int duty_cycle
    counter,     \* static int counter of pwm_timer_callback
    line,        \* level last driven on gpio_pwm
    offset,      \* *offset: the cursor of the open file
    wpc,         \* position of each concurrent write() call
    wmsg,        \* char msg[16] of each concurrent write() call
    edges,       \* history: ktime_get() of each edge handled
    periods,     \* history: period_us after each edge handled
    rd,          \* history: the last read() call
    wr,          \* history: the last sequential write() call
    win,         \* history: the ticks since duty_cycle last changed (at most Steps)
    tickNo,      \* history: index of the last tick in its 100-tick cycle since load
    stable,      \* history: duty_cycle has not been written since the first tick
    seen         \* history: the duty_cycle value the last tick compared with

\* a build whose registers hold 32 bits: period_us is two words
VARIABLES
    period_hi,   \* upper 32 bits of period_us (period_us then holds the lower 32)
    clk_hi,      \* upper 32 bits of the clock in us; it does not change in a run
    ipc,         \* position of gpio_irq_handler
    ireg,        \* the delta gpio_irq_handler is storing
    rpc,         \* position of the load of period_us in myrt_read
    rreg,        \* the words myrt_read has loaded
    pubs         \* history: the values period_us has held, as <<upper, lower>>

\* module load and unload
VARIABLES
    lpc,         \* position of myrt_init / myrt_exit
    held,        \* what the module holds: endpoints, lines, the interrupt, the timer
    running,     \* the handlers in flight: "tick", "irq"
    early,       \* history: a handler ran before line 197 of myrt_init
    clobbered,   \* history: line 197 overwrote a last_edge written by the handler
    released     \* history: what myrt_exit has released, in order

\* the expiry of pwm_timer
VARIABLES
    expires,     \* pwm_timer's expiry, ns
    tk,          \* history: the last timed tick
    nTimed       \* history: number of timed ticks

\* concurrent writes
VARIABLES
    settled,     \* history: the value stored by a write that returned undisturbed
    base,        \* history: duty_cycle when the writes in flight began
    cand         \* history: clamped payloads parsed since then

tornVars == <<period_hi, clk_hi, ipc, ireg, rpc, rreg, pubs>>
lifeVars == <<lpc, held, running, early, clobbered, released>>
timerVars == <<expires, tk, nTimed>>
raceVars == <<settled, base, cand>>

vars == <<now, last_edge, period_us, duty_cycle, counter, line, offset, wpc, wmsg,
          edges, periods, rd, wr, win, tickNo, stable, seen,
          tornVars, lifeVars, timerVars, raceVars>>

progVars == <<now, last_edge, period_us, duty_cycle, counter, line, offset>>
histVars == <<edges, periods, rd, wr, win, tickNo, stable, seen>>

NoCall == [kind |-> "none"]

\* the statics as the module image holds them, no edge, tick or call yet
InitProg ==
    /\ now \in StartTimes
    /\ last_edge = 0
    /\ period_us = 0
    /\ duty_cycle = DutyDefault
    /\ counter = 0
    /\ line = 0
    /\ offset = 0
    /\ wpc = [w \in Writers |-> "idle"]
    /\ wmsg = [w \in Writers |-> <<>>]
    /\ edges = <<>>
    /\ periods = <<>>
    /\ rd = NoCall
    /\ wr = NoCall
    /\ win = <<>>
    /\ tickNo = -1
    /\ stable = TRUE
    /\ seen = DutyDefault

\* period_us as two words, with the clock's upper word h
InitWords(h) ==
    /\ period_hi = 0
    /\ clk_hi = h
    /\ ipc = "idle"
    /\ ireg = NoCall
    /\ rpc = "idle"
    /\ rreg = NoCall
    /\ pubs = {<<0, 0>>}

\* the module at position pc of its life, holding res
InitModule(pc, res) ==
    /\ lpc = pc
    /\ held = res
    /\ running = {}
    /\ early = FALSE
    /\ clobbered = FALSE
    /\ released = <<>>

\* hrtimer_start(&pwm_timer, pwm_period, HRTIMER_MODE_REL) at the time of load
InitTimer ==
    /\ expires = now + pwm_period
    /\ tk = NoCall
    /\ nTimed = 0

InitWriters ==
    /\ settled = <<>>
    /\ base = DutyDefault
    /\ cand = {}

\* the module loaded (myrt_init returned 0), no edge, tick or call yet
Init ==
    /\ InitProg
    /\ InitWords(0)
    /\ InitModule("loaded", Resources)
    /\ InitTimer
    /\ InitWriters

\* ------------------------------------------------------------ edge timestamper

\* ktime_compare(a, b): negative, zero or positive
ktime_compare(a, b) == IF a < b THEN -1 ELSE IF a > b THEN 1 ELSE 0

\* ktime_us_delta(later, earlier)
ktime_us_delta(later, earlier) == (later - earlier) \div NsPerUs

\* if (!ktime_compare(last_edge, ktime_set(0,0))): taken when the compare
\* returns 0, that is when last_edge equals the zero sentinel
PublishGuard(le) == ktime_compare(le, 0) = 0

\* gpio_irq_handler with ktime_get() = t
gpio_irq_handler(t) ==
    /\ period_us' = IF PublishGuard(last_edge)
                    THEN ktime_us_delta(t, last_edge)
                    ELSE period_us
    /\ last_edge' = t

\* ------------------------------------------------------------ waveform generator

\* counter = (counter + 1) % 101: the modulus off by one
StepAdvanceWide(c) == (c + 1) % (Steps + 1)

\* counter = (counter + 1) % 100
StepAdvance(c) == (c + 1) % Steps

\* if (counter <= duty_cycle): an off-by-one compare
LineLevelInclusive(c, d) == IF c <= d THEN 1 ELSE 0

\* if (counter < duty_cycle) gpiod_set_value(gpio_pwm, 1); else (..., 0)
LineLevel(c, d) == IF c < d THEN 1 ELSE 0

\* pwm_timer_callback: one tick; returns HRTIMER_RESTART, so the timer stays armed
pwm_timer_callback ==
    /\ counter' = StepAdvance(counter)
    /\ line' = LineLevel(counter', duty_cycle)

\* ------------------------------------------------------------ read

EFAULT == 14
EINVAL == 22

\* myrt_read(filep, buffer, len, offset); fault: copy_to_user fails.
\* [ret, data, off]: the value returned, the bytes copied to the caller's buffer
\* and the cursor afterwards
ReadResult(period, off, len, fault) ==
    LET msg == Format(period)
        msg_len == Len(msg)
    IN  IF off >= msg_len THEN [ret |-> 0, data |-> <<>>, off |-> off]
        ELSE IF fault THEN [ret |-> 0 - EFAULT, data |-> <<>>, off |-> off]
        ELSE [ret |-> msg_len, data |-> msg, off |-> off + msg_len]

\* a read that consumes the measurement: period_us is reset once it is returned
myrt_readClearing(len, fault) ==
    /\ offset' = ReadResult(period_us, offset, len, fault).off
    /\ period_us' = IF offset' # offset THEN 0 ELSE period_us
    /\ UNCHANGED <<last_edge, duty_cycle, counter, line>>

\* myrt_read writes *offset and nothing else
myrt_read(len, fault) ==
    /\ offset' = ReadResult(period_us, offset, len, fault).off
    /\ UNCHANGED <<last_edge, period_us, duty_cycle, counter, line>>

\* ------------------------------------------------------------ write

\* if (len > sizeof(msg)): an off-by-one size check
TooLongExclusive(len) == len > MsgSize

\* if (len >= sizeof(msg)) return -EINVAL
TooLong(len) == len >= MsgSize

\* if (duty_cycle < 0) duty_cycle = 0
ClampLow(d) == IF d < 0 THEN 0 ELSE d

\* the upper clamp left out
ClampHighMissing(d) == d

\* if (duty_cycle > 100) duty_cycle = 100
ClampHigh(d) == IF d > DutyMax THEN DutyMax ELSE d

\* myrt_write(filep, buffer, len, offset) run start to end from duty_cycle = d
\* with the caller's bytes p; fault: copy_from_user fails.
\* [ret, duty, log]: the value returned, duty_cycle afterwards and the pr_info
\* record emitted (<<>> when none, <<n>> for "duty cycle set to n%")
WriteResult(d, p, fault) ==
    IF TooLong(Len(p)) THEN [ret |-> 0 - EINVAL, duty |-> d, log |-> <<>>]
    ELSE IF fault THEN [ret |-> 0 - EFAULT, duty |-> d, log |-> <<>>]
    ELSE LET r == KstrToInt(p)
             d1 == IF r.ok THEN r.val ELSE d
             d3 == ClampHigh(ClampLow(d1))
         IN  [ret |-> Len(p), duty |-> d3, log |-> <<d3>>]

myrt_write(p, fault) ==
    duty_cycle' = WriteResult(duty_cycle, p, fault).duty

\* ------------------------------------------------------------ actions

\* a rising edge dt ns after the clock's last reading: the handler runs once
Edge(dt) ==
    /\ Len(edges) < MaxEdges
    /\ now' = now + dt
    /\ gpio_irq_handler(now')
    /\ edges' = Append(edges, now')
    /\ periods' = Append(periods, period_us')
    /\ UNCHANGED <<duty_cycle, counter, line, offset, wpc, wmsg,
                   rd, wr, win, tickNo, stable, seen,
                   tornVars, lifeVars, timerVars, raceVars>>

\* open(): a file with its cursor at 0 (fops has no .open and no .llseek)
Open ==
    /\ offset' = 0
    /\ rd' = NoCall
    /\ UNCHANGED <<now, last_edge, period_us, duty_cycle, counter, line, wpc, wmsg,
                   edges, periods, wr, win, tickNo, stable, seen,
                   tornVars, lifeVars, timerVars, raceVars>>

\* read(fd, buffer, len)
Read(len, fault) ==
    /\ myrt_read(len, fault)
    /\ rd' = LET r == ReadResult(period_us, offset, len, fault)
             IN  [kind |-> "read", off0 |-> offset, len |-> len, fault |-> fault,
                  period |-> period_us, nedges |-> Len(edges),
                  ret |-> r.ret, data |-> r.data, off1 |-> offset',
                  frame |-> <<last_edge, period_us, duty_cycle, counter, line>>
                            = <<last_edge', period_us', duty_cycle', counter', line'>>]
    /\ UNCHANGED <<now, wpc, wmsg, edges, periods, wr, win, tickNo, stable, seen,
                   tornVars, lifeVars, timerVars, raceVars>>

\* a timer tick, recorded in the window of ticks at the current duty cycle
TickPwm ==
    /\ pwm_timer_callback
    /\ tickNo' = (tickNo + 1) % Steps
    /\ win' = LET w == Append(win, [c |-> counter', hi |-> line' = 1])
              IN  IF Len(w) > Steps THEN Tail(w) ELSE w
    /\ UNCHANGED <<now, last_edge, period_us, duty_cycle, offset, wpc, wmsg,
                   edges, periods, rd, wr, stable, seen,
                   tornVars, lifeVars, timerVars, raceVars>>

\* a timer tick among concurrent writers, with the duty_cycle value it read
TickRace ==
    /\ pwm_timer_callback
    /\ tickNo' = (tickNo + 1) % Steps
    /\ seen' = duty_cycle
    /\ UNCHANGED <<now, last_edge, period_us, duty_cycle, offset, wpc, wmsg,
                   edges, periods, rd, wr, win, stable,
                   tornVars, lifeVars, timerVars, raceVars>>

\* write(fd, p, Len(p)) by a caller with no other write in flight
WriteSeq(p, fault) ==
    /\ myrt_write(p, fault)
    /\ UNCHANGED <<now, last_edge, period_us, counter, line, offset, wpc, wmsg,
                   edges, periods, rd, win, tickNo, stable, seen,
                   tornVars, lifeVars, timerVars, raceVars>>
    /\ wr' = LET r == WriteResult(duty_cycle, p, fault)
             IN  [kind |-> "write", p |-> p, fault |-> fault, before |-> duty_cycle,
                  ret |-> r.ret, log |-> r.log,
                  frame |-> <<last_edge, period_us, counter, line, offset>>
                            = <<last_edge', period_us', counter', line', offset'>>]

\* the same write under the waveform generator: a changed duty cycle starts a
\* new window
WritePwm(p) ==
    /\ myrt_write(p, FALSE)
    /\ win' = IF duty_cycle' = duty_cycle THEN win ELSE <<>>
    /\ stable' = (stable /\ (tickNo = -1 \/ duty_cycle' = duty_cycle))
    /\ UNCHANGED <<now, last_edge, period_us, counter, line, offset, wpc, wmsg,
                   edges, periods, rd, wr, tickNo, seen,
                   tornVars, lifeVars, timerVars, raceVars>>

\* ---- write() of concurrent callers, one step per access to duty_cycle

\* lines 104-106: the size check and copy_from_user
WCall(w, p, fault) ==
    /\ wpc[w] = "idle"
    /\ IF TooLong(Len(p)) \/ fault
       THEN UNCHANGED <<wpc, wmsg>>
       ELSE /\ wmsg' = [wmsg EXCEPT ![w] = p]
            /\ wpc' = [wpc EXCEPT ![w] = "parse"]
    /\ UNCHANGED <<progVars, histVars,
                   tornVars, lifeVars, timerVars>>

\* a write that applies the new value to the line at once instead of leaving
\* it to the next tick
WParseDrivesLine(w) ==
    /\ wpc[w] = "parse"
    /\ duty_cycle' = LET r == KstrToInt(wmsg[w])
                     IN  IF r.ok THEN r.val ELSE duty_cycle
    /\ line' = LineLevel(counter, duty_cycle')
    /\ wpc' = [wpc EXCEPT ![w] = "lo"]
    /\ UNCHANGED <<now, last_edge, period_us, counter, offset, wmsg, histVars,
                   tornVars, lifeVars, timerVars>>

\* line 107: kstrtoint stores the parsed value, unclamped
WParse(w) ==
    /\ wpc[w] = "parse"
    /\ duty_cycle' = LET r == KstrToInt(wmsg[w])
                     IN  IF r.ok THEN r.val ELSE duty_cycle
    /\ wpc' = [wpc EXCEPT ![w] = "lo"]
    /\ UNCHANGED <<now, last_edge, period_us, counter, line, offset, wmsg, histVars,
                   tornVars, lifeVars, timerVars>>

\* line 108: the test duty_cycle < 0
WTestLow(w) ==
    /\ wpc[w] = "lo"
    /\ wpc' = [wpc EXCEPT ![w] = IF duty_cycle < 0 THEN "loStore" ELSE "hi"]
    /\ UNCHANGED <<progVars, wmsg, histVars,
                   tornVars, lifeVars, timerVars>>

\* line 108: the store duty_cycle = 0
WStoreLow(w) ==
    /\ wpc[w] = "loStore"
    /\ duty_cycle' = 0
    /\ wpc' = [wpc EXCEPT ![w] = "hi"]
    /\ UNCHANGED <<now, last_edge, period_us, counter, line, offset, wmsg, histVars,
                   tornVars, lifeVars, timerVars>>

\* a write without the upper clamp
WTestHighSkipped(w) ==
    /\ wpc[w] = "hi"
    /\ wpc' = [wpc EXCEPT ![w] = "log"]
    /\ UNCHANGED <<progVars, wmsg, histVars,
                   tornVars, lifeVars, timerVars>>

\* line 109: the test duty_cycle > 100
WTestHigh(w) ==
    /\ wpc[w] = "hi"
    /\ wpc' = [wpc EXCEPT ![w] = IF duty_cycle > DutyMax THEN "hiStore" ELSE "log"]
    /\ UNCHANGED <<progVars, wmsg, histVars,
                   tornVars, lifeVars, timerVars>>

\* line 109: the store duty_cycle = 100
WStoreHigh(w) ==
    /\ wpc[w] = "hiStore"
    /\ duty_cycle' = DutyMax
    /\ wpc' = [wpc EXCEPT ![w] = "log"]
    /\ UNCHANGED <<now, last_edge, period_us, counter, line, offset, wmsg, histVars,
                   tornVars, lifeVars, timerVars>>

\* lines 110-111: pr_info and return len
WReturn(w) ==
    /\ wpc[w] = "log"
    /\ wpc' = [wpc EXCEPT ![w] = "idle"]
    /\ wmsg' = [wmsg EXCEPT ![w] = <<>>]
    /\ UNCHANGED <<progVars, histVars,
                   tornVars, lifeVars, timerVars>>

\* ---- period_us where a 64-bit access is two 32-bit accesses (lines 56, 93)

\* the words of ktime_us_delta(t, le): le is the zero sentinel or a time of
\* this run, whose upper word is the clock's
UsDeltaWords(t, le) ==
    [kind |-> "delta", hi |-> IF le = 0 THEN clk_hi ELSE 0,
     lo |-> ktime_us_delta(t, le)]

\* lines 52-55: ktime_get, the test of last_edge and the delta
IrqEnter(dt) ==
    /\ ipc = "idle"
    /\ Len(edges) < MaxEdges
    /\ now' = now + dt
    /\ IF PublishGuard(last_edge)
       THEN /\ ireg' = UsDeltaWords(now', last_edge)
            /\ ipc' = "store"
       ELSE /\ ireg' = NoCall
            /\ ipc' = "stamp"
    /\ UNCHANGED <<last_edge, period_us, duty_cycle, counter, line, offset, wpc, wmsg,
                   histVars, period_hi, clk_hi, rpc, rreg, pubs,
                   lifeVars, timerVars, raceVars>>

\* line 56: period_us = delta, one word at a time in either order
IrqStoreWord(h) ==
    /\ ipc \in {"store", IF h = "lo" THEN "storeLo" ELSE "storeHi"}
    /\ IF h = "lo"
       THEN period_us' = ireg.lo /\ UNCHANGED period_hi
       ELSE period_hi' = ireg.hi /\ UNCHANGED period_us
    /\ ipc' = IF ipc = "store"
              THEN (IF h = "lo" THEN "storeHi" ELSE "storeLo")
              ELSE "stamp"
    /\ pubs' = IF ipc' = "stamp" THEN pubs \cup {<<period_hi', period_us'>>} ELSE pubs
    /\ UNCHANGED <<now, last_edge, duty_cycle, counter, line, offset, wpc, wmsg,
                   histVars, clk_hi, ireg, rpc, rreg,
                   lifeVars, timerVars, raceVars>>

\* lines 58-59: last_edge = now; return IRQ_HANDLED
IrqStamp ==
    /\ ipc = "stamp"
    /\ last_edge' = now
    /\ edges' = Append(edges, now)
    /\ periods' = Append(periods, period_us)
    /\ ipc' = "idle"
    /\ ireg' = NoCall
    /\ UNCHANGED <<now, period_us, duty_cycle, counter, line, offset, wpc, wmsg,
                   rd, wr, win, tickNo, stable, seen,
                   period_hi, clk_hi, rpc, rreg, pubs,
                   lifeVars, timerVars, raceVars>>

\* line 93: the load of period_us for snprintf, one word at a time in either
\* order
ReadLoadWord(h) ==
    /\ rpc \in {"idle", IF h = "lo" THEN "loadLo" ELSE "loadHi"}
    /\ rreg' = IF rpc = "idle"
               THEN [kind |-> "part",
                     hi |-> IF h = "hi" THEN period_hi ELSE 0,
                     lo |-> IF h = "lo" THEN period_us ELSE 0]
               ELSE [kind |-> "value",
                     hi |-> IF h = "hi" THEN period_hi ELSE rreg.hi,
                     lo |-> IF h = "lo" THEN period_us ELSE rreg.lo]
    /\ rpc' = IF rpc = "idle"
              THEN (IF h = "lo" THEN "loadHi" ELSE "loadLo")
              ELSE "idle"
    /\ UNCHANGED <<progVars, wpc, wmsg, histVars,
                   period_hi, clk_hi, ipc, ireg, pubs,
                   lifeVars, timerVars, raceVars>>

\* ---- module load and unload (lines 121-217)

\* the acquisitions of myrt_init in program order: register_chrdev (126),
\* class_create (133), device_create (152), gpiod_get (174, 177),
\* request_irq (183), hrtimer_start (195)
InitOrder == <<"chrdev", "class", "device", "gpio_pwm", "gpio_meas", "irq", "timer">>

\* what the error path of each acquisition releases before it returns:
\* lines 146 and 155-156 release the endpoint; lines 175, 178 and 186-188 only
\* return
Unwind(r) ==
    CASE r = "class"  -> {"chrdev"}
      [] r = "device" -> {"class", "chrdev"}
      [] OTHER        -> {}

\* the releases of myrt_exit with the two lines released first
ExitOrderLinesFirst ==
    <<"gpio_pwm", "gpio_meas", "timer", "irq", "device", "class", "chrdev">>

\* the releases of myrt_exit in program order: hrtimer_cancel (204), free_irq
\* (205), gpiod_put (210, 211), device_destroy, class_destroy,
\* unregister_chrdev (213-215)
ExitOrder == <<"timer", "irq", "gpio_pwm", "gpio_meas", "device", "class", "chrdev">>

\* myrt_init has not yet passed line 197
BeforeStamp == lpc \in {"init", "class_retry", "stamp"}

\* one acquisition of myrt_init; out is "ok", "fail" or, for class_create,
\* "eexist". hrtimer_init and hrtimer_start return nothing and cannot fail
myrt_init_step(out) ==
    /\ lpc = "init"
    /\ LET r == InitOrder[Cardinality(held) + 1]
       IN  /\ out = "eexist" => r = "class"
           /\ out = "fail" => r # "timer"
           /\ CASE out = "ok" ->
                     /\ held' = held \cup {r}
                     /\ lpc' = IF r = "timer" THEN "stamp" ELSE "init"
                [] out = "eexist" ->
                     /\ lpc' = "class_retry"
                     /\ UNCHANGED held
                [] OTHER ->
                     /\ held' = held \ Unwind(r)
                     /\ lpc' = "failed"
    /\ UNCHANGED <<progVars, wpc, wmsg, histVars, tornVars,
                   running, early, clobbered, released, timerVars, raceVars>>

\* lines 135-149: class_create returned -EEXIST; class_destroy of the error
\* pointer does nothing, class_create is tried once more
myrt_init_class_retry(ok) ==
    /\ lpc = "class_retry"
    /\ IF ok
       THEN held' = held \cup {"class"} /\ lpc' = "init"
       ELSE held' = held \ Unwind("class") /\ lpc' = "failed"
    /\ UNCHANGED <<progVars, wpc, wmsg, histVars, tornVars,
                   running, early, clobbered, released, timerVars, raceVars>>

\* lines 197-199: last_edge = ktime_set(0,0); return 0
myrt_init_stamp ==
    /\ lpc = "stamp"
    /\ last_edge' = 0
    /\ clobbered' = (last_edge # 0)
    /\ lpc' = "loaded"
    /\ UNCHANGED <<now, period_us, duty_cycle, counter, line, offset, wpc, wmsg,
                   histVars, tornVars, held, running, early, released,
                   timerVars, raceVars>>

\* one release of myrt_exit. hrtimer_cancel returns once the callback is not
\* running, free_irq once the handler is not
myrt_exit_step ==
    /\ lpc \in {"loaded", "exit"}
    /\ LET r == ExitOrder[Len(released) + 1]
       IN  /\ r = "timer" => "tick" \notin running
           /\ r = "irq" => "irq" \notin running
           /\ held' = held \ {r}
           /\ released' = Append(released, r)
    /\ lpc' = IF Len(released') = Len(ExitOrder) THEN "unloaded" ELSE "exit"
    /\ UNCHANGED <<progVars, wpc, wmsg, histVars, tornVars,
                   running, early, clobbered, timerVars, raceVars>>

\* a rising edge while the interrupt is requested: gpio_irq_handler is entered
IrqStart(dt) ==
    /\ "irq" \in held
    /\ "irq" \notin running
    /\ Len(edges) < MaxEdges
    /\ now' = now + dt
    /\ gpio_irq_handler(now')
    /\ edges' = Append(edges, now')
    /\ periods' = Append(periods, period_us')
    /\ running' = running \cup {"irq"}
    /\ early' = (early \/ BeforeStamp)
    /\ UNCHANGED <<duty_cycle, counter, line, offset, wpc, wmsg,
                   rd, wr, win, tickNo, stable, seen, tornVars,
                   lpc, held, clobbered, released, timerVars, raceVars>>

\* gpio_irq_handler returns
IrqEnd ==
    /\ "irq" \in running
    /\ running' = running \ {"irq"}
    /\ UNCHANGED <<progVars, wpc, wmsg, histVars, tornVars,
                   lpc, held, early, clobbered, released, timerVars, raceVars>>

\* pwm_timer expires while armed: pwm_timer_callback is entered
TickStart ==
    /\ "timer" \in held
    /\ "tick" \notin running
    /\ running' = running \cup {"tick"}
    /\ early' = (early \/ BeforeStamp)
    /\ UNCHANGED <<progVars, wpc, wmsg, histVars, tornVars,
                   lpc, held, clobbered, released, timerVars, raceVars>>

\* pwm_timer_callback drives the line and returns HRTIMER_RESTART
TickEnd ==
    /\ "tick" \in running
    /\ pwm_timer_callback
    /\ running' = running \ {"tick"}
    /\ UNCHANGED <<now, last_edge, period_us, duty_cycle, offset, wpc, wmsg,
                   histVars, tornVars,
                   lpc, held, early, clobbered, released, timerVars, raceVars>>

\* ---- the expiry of pwm_timer (lines 83-85)

\* a reschedule one interval after the time of the call
ForwardFromNow(exp, t, interval) == t + interval

\* hrtimer_forward_now(timer, interval) called at time t with expiry exp: the
\* expiry moves by whole intervals until it is after t
hrtimer_forward_now(exp, t, interval) ==
    LET delta == t - exp
    IN  IF delta < 0 THEN exp
        ELSE IF delta >= interval
             THEN LET orun == delta \div interval
                      e1 == exp + interval * orun
                  IN  IF e1 > t THEN e1 ELSE e1 + interval
             ELSE exp + interval

\* pwm_timer_callback run late ns after the expiry of pwm_timer
TickTimed(late) ==
    /\ nTimed < MaxTimedTicks
    /\ now' = expires + late
    /\ pwm_timer_callback
    /\ expires' = hrtimer_forward_now(expires, now', pwm_period)
    /\ tk' = [kind |-> "tick", late |-> late, due |-> expires, at |-> now',
              next |-> expires', c0 |-> counter, c1 |-> counter']
    /\ nTimed' = nTimed + 1
    /\ UNCHANGED <<last_edge, period_us, duty_cycle, offset, wpc, wmsg,
                   histVars, tornVars, lifeVars, raceVars>>

\* ------------------------------------------------------------ specifications

\* the period meter and the reader
NextEdge ==
    \/ \E dt \in Gaps : Edge(dt)
    \/ \E len \in ReadLens, fault \in BOOLEAN : Read(len, fault)
    \/ Open

SpecEdge == Init /\ [][NextEdge]_vars

\* the waveform generator and a caller setting the duty cycle
NextPwm ==
    \/ TickPwm
    \/ \E p \in PwmPayloads : WritePwm(p)

SpecPwm == Init /\ [][NextPwm]_vars

\* a caller of write(), one call at a time
NextWrite ==
    \/ \E p \in WritePayloads, fault \in BOOLEAN : WriteSeq(p, fault)

SpecWrite == Init /\ [][NextWrite]_vars

\* the other write() calls are all idle
Alone(w) == \A o \in Writers \ {w} : wpc[o] = "idle"

\* history of a step of writer w: a write that returns with no other call in
\* flight and its clamped payload in duty_cycle has settled that value; any
\* later store to duty_cycle unsettles it
RaceNote(w) ==
    /\ settled' = IF wpc[w] = "log"
                  THEN LET r == KstrToInt(wmsg[w])
                       IN  IF Alone(w) /\ r.ok
                              /\ duty_cycle = ClampHigh(ClampLow(r.val))
                           THEN <<duty_cycle>>
                           ELSE settled
                  ELSE IF duty_cycle' # duty_cycle THEN <<>> ELSE settled
    /\ UNCHANGED <<base, cand>>

\* history of a step of writer w: base is duty_cycle when the first of the
\* calls in flight began, cand the clamped values of the payloads parsed since
BatchNote(w) ==
    LET quiet == \A o \in Writers : wpc[o] = "idle"
        c0 == IF quiet THEN {} ELSE cand
        r == KstrToInt(wmsg[w])
    IN  /\ base' = IF quiet THEN duty_cycle ELSE base
        /\ cand' = IF wpc[w] = "parse" /\ r.ok
                   THEN c0 \cup {ClampHigh(ClampLow(r.val))}
                   ELSE c0
        /\ UNCHANGED settled

\* the waveform generator and concurrent callers of write()
NextRace ==
    \/ TickRace
    \/ \E w \in Writers :
         \/ \E p \in RacePayloads, fault \in BOOLEAN : WCall(w, p, fault) /\ RaceNote(w)
         \/ WParse(w) /\ RaceNote(w)
         \/ WTestLow(w) /\ RaceNote(w)
         \/ WStoreLow(w) /\ RaceNote(w)
         \/ WTestHigh(w) /\ RaceNote(w)
         \/ WStoreHigh(w) /\ RaceNote(w)
         \/ WReturn(w) /\ RaceNote(w)

SpecRace == Init /\ [][NextRace]_vars

\* concurrent callers of write() alone
NextBatch ==
    \E w \in Writers :
         \/ \E p \in BatchPayloads, fault \in BOOLEAN : WCall(w, p, fault) /\ BatchNote(w)
         \/ WParse(w) /\ BatchNote(w)
         \/ WTestLow(w) /\ BatchNote(w)
         \/ WStoreLow(w) /\ BatchNote(w)
         \/ WTestHigh(w) /\ BatchNote(w)
         \/ WStoreHigh(w) /\ BatchNote(w)
         \/ WReturn(w) /\ BatchNote(w)

SpecBatch == Init /\ [][NextBatch]_vars

\* the edge handler on one processor and read() on another, with period_us
\* accessed a word at a time
InitWordsAny ==
    /\ InitProg
    /\ \E h \in ClkHighs : InitWords(h)
    /\ InitModule("loaded", Resources)
    /\ InitTimer
    /\ InitWriters

NextWords ==
    \/ \E dt \in Gaps : IrqEnter(dt)
    \/ \E h \in {"lo", "hi"} : IrqStoreWord(h)
    \/ IrqStamp
    \/ \E h \in {"lo", "hi"} : ReadLoadWord(h)

SpecWords == InitWordsAny /\ [][NextWords]_vars

\* insmod and rmmod, with edges and ticks arriving as soon as they are armed
InitUnloaded ==
    /\ InitProg
    /\ InitWords(0)
    /\ InitModule("init", {})
    /\ InitTimer
    /\ InitWriters

NextLife ==
    \/ \E out \in {"ok", "fail", "eexist"} : myrt_init_step(out)
    \/ \E ok \in BOOLEAN : myrt_init_class_retry(ok)
    \/ myrt_init_stamp
    \/ myrt_exit_step
    \/ \E dt \in LifeGaps : IrqStart(dt)
    \/ IrqEnd
    \/ TickStart
    \/ TickEnd

SpecLife == InitUnloaded /\ [][NextLife]_vars

\* the waveform generator with the times of its ticks
NextTimer ==
    \E late \in Lates : TickTimed(late)

SpecTimer == Init /\ [][NextTimer]_vars

\* ------------------------------------------------------------ claims: edges

\* C1: every edge after the first publishes period_us equal to its own
\* timestamp minus the previous edge's timestamp, in whole microseconds.
C1_PeriodIsEdgeDelta ==
    \A n \in 2..Len(edges) :
        periods[n] = (edges[n] - edges[n - 1]) \div NsPerUs

\* C2: the first edge only seeds last_edge: after exactly one edge period_us
\* is still 0, and a read issued then returns "0\n".
C2_FirstEdgeOnlySeeds ==
    /\ Len(edges) = 1 => (last_edge = edges[1] /\ period_us = 0)
    /\ (rd.kind = "read" /\ rd.nedges = 1 /\ rd.off0 = 0 /\ ~rd.fault)
          => rd.data = <<Ch0, ChNL>>

\* ------------------------------------------------------------ claims: waveform

\* C3: with duty_cycle = d held over 100 consecutive ticks, the line is driven
\* high on exactly d of them and low on 100 - d, the high ticks being those
\* whose step counter is in 0..d-1 (none for d = 0, all for d = 100).
C3_DutyOverCycle ==
    Len(win) = Steps =>
        /\ duty_cycle \in 0..DutyMax
        /\ {win[i].c : i \in 1..Steps} = 0..(Steps - 1)
        /\ Cardinality({i \in 1..Steps : win[i].hi}) = duty_cycle
        /\ Cardinality({i \in 1..Steps : ~win[i].hi}) = Steps - duty_cycle
        /\ \A i \in 1..Steps : win[i].hi <=> win[i].c \in 0..(duty_cycle - 1)

C3_Witness == Len(win) = Steps /\ duty_cycle = 75 /\ counter = 40

\* C4 as stated: with duty_cycle = 75 since before the first tick, tick k of
\* each 100-tick cycle (k counted from the first invocation) drives the line
\* high for k in 0..74 and low for k in 75..99.
C4_HighOnTicks0To74 ==
    (stable /\ duty_cycle = 75 /\ tickNo >= 0) => (line = 1 <=> tickNo \in 0..74)

\* C4 amended: tick k compares the advanced counter (k + 1) mod 100, so the
\* line is driven high on ticks 0..73 and 99 and low on ticks 74..98.
C4_HighOnSteps0To74 ==
    (stable /\ duty_cycle = 75 /\ tickNo >= 0) =>
        /\ counter = (tickNo + 1) % Steps
        /\ line = 1 <=> (tickNo \in 0..73 \/ tickNo = 99)

C4_Witness == stable /\ duty_cycle = 75 /\ tickNo = 99 /\ line = 1

\* ------------------------------------------------------------ claims: write

\* the payload, read as a C string, is a decimal integer: an optional sign,
\* one or more digits, an optional final newline
IsDecimalText(p) ==
    LET t == CStr(p)
        body == IF t # <<>> /\ Head(t) \in {ChPlus, ChMinus} THEN Tail(t) ELSE t
        core == IF body # <<>> /\ body[Len(body)] = ChNL
                THEN SubSeq(body, 1, Len(body) - 1) ELSE body
    IN  /\ Len(core) >= 1
        /\ \A i \in 1..Len(core) : IsDigit(core[i])

\* the digits of a decimal text, without sign, newline and leading zeros
TextDigits(p) ==
    LET t == CStr(p)
    IN  StripZeros(SelectSeq(t, IsDigit))

\* min(100, max(0, v)) for the integer v a decimal text writes
TextClamped(p) ==
    LET ds == TextDigits(p)
    IN  IF ds = <<>> \/ Head(CStr(p)) = ChMinus THEN 0
        ELSE IF Len(ds) > 3 THEN DutyMax
        ELSE LET v == SignedValue(ds, 1, 0) IN IF v > DutyMax THEN DutyMax ELSE v

\* the integer a decimal text writes is representable as a 32-bit int
TextFitsInt(p) ==
    MagnitudeLeq(TextDigits(p),
                 IF Head(CStr(p)) = ChMinus THEN IntMinDigits ELSE IntMaxDigits)

\* C5 as stated: a write of at most 15 bytes that is a decimal integer v
\* returns its length and leaves duty_cycle = min(100, max(0, v)).
C5_DecimalStoredClamped ==
    (wr.kind = "write" /\ ~wr.fault /\ Len(wr.p) <= MsgSize - 1 /\ IsDecimalText(wr.p))
        => (wr.ret = Len(wr.p) /\ duty_cycle = TextClamped(wr.p))

\* C5 amended: the same for every decimal integer v that fits a 32-bit int
\* (a v beyond int is a parse failure and leaves duty_cycle as it was).
C5_IntStoredClamped ==
    /\ (wr.kind = "write" /\ ~wr.fault /\ Len(wr.p) <= MsgSize - 1
        /\ IsDecimalText(wr.p) /\ TextFitsInt(wr.p))
          => (wr.ret = Len(wr.p) /\ duty_cycle = TextClamped(wr.p))
    /\ (wr.kind = "write" /\ ~wr.fault /\ Len(wr.p) <= MsgSize - 1
        /\ IsDecimalText(wr.p) /\ ~TextFitsInt(wr.p))
          => (wr.ret = Len(wr.p) /\ duty_cycle = wr.before)

C5_Witness ==
    /\ wr.kind = "write" /\ ~wr.fault /\ IsDecimalText(wr.p) /\ TextFitsInt(wr.p)
    /\ Len(wr.p) = 3 /\ wr.before = 0 /\ duty_cycle = DutyMax

\* C7: a write of 16 bytes or more returns -EINVAL and changes neither
\* duty_cycle nor any other shared state; a write of 0..15 bytes is not
\* rejected for its size.
C7_OversizedRejected ==
    wr.kind = "write" =>
        /\ Len(wr.p) >= MsgSize =>
              /\ wr.ret = 0 - EINVAL
              /\ duty_cycle = wr.before
              /\ wr.frame
        /\ Len(wr.p) <= MsgSize - 1 =>
              /\ wr.ret # 0 - EINVAL
              /\ ~wr.fault => wr.ret = Len(wr.p)

C7_Witness ==
    /\ wr.kind = "write" /\ Len(wr.p) = MsgSize /\ wr.ret = 0 - EINVAL
    /\ IsDecimalText(wr.p) /\ wr.before = 0 /\ duty_cycle = 0

\* C8: a write of at most 15 bytes that is not a decimal integer leaves
\* duty_cycle as it was before the call and returns its length.
C8_UnparsedLeavesDuty ==
    (wr.kind = "write" /\ ~wr.fault /\ Len(wr.p) <= MsgSize - 1 /\ ~IsDecimalText(wr.p))
        => (duty_cycle = wr.before /\ wr.ret = Len(wr.p))

C8_Witness ==
    /\ wr.kind = "write" /\ ~wr.fault /\ wr.p = TxtAbc
    /\ wr.before = 75 /\ duty_cycle = 75 /\ wr.ret = 3

\* C6: duty_cycle is in 0..100 in every state, the states inside a write
\* included, and no tick reads a value outside 0..100.
C6_DutyAlwaysInRange ==
    /\ duty_cycle \in 0..DutyMax
    /\ seen \in 0..DutyMax

\* ------------------------------------------------------------ claims: read

\* data is the decimal text of v followed by one newline
IsDecimalLine(data, v) ==
    LET n == Len(data)
    IN  /\ n >= 2
        /\ data[n] = ChNL
        /\ \A i \in 1..(n - 1) : IsDigit(data[i])
        /\ n > 2 => data[1] # Ch0
        /\ SignedValue(SubSeq(data, 1, n - 1), 1, 0) = v

\* the number of bytes of the decimal text of v and its newline
RECURSIVE DecimalLineLen(_)
DecimalLineLen(v) == IF v < 10 THEN 2 ELSE 1 + DecimalLineLen(v \div 10)

\* C9: a read at cursor 0 returns period_us as decimal digits and one newline
\* and advances the cursor by the bytes returned; a read with the cursor at or
\* past the length of the formatted value returns 0 bytes.
C9_ReadFormatsPeriod ==
    rd.kind = "read" =>
        /\ (rd.off0 = 0 /\ ~rd.fault) =>
              /\ IsDecimalLine(rd.data, rd.period)
              /\ rd.ret = Len(rd.data)
              /\ rd.off1 = rd.off0 + rd.ret
        /\ rd.off0 >= DecimalLineLen(rd.period) =>
              /\ rd.ret = 0
              /\ rd.data = <<>>
              /\ rd.off1 = rd.off0

C9_Witness ==
    /\ rd.kind = "read" /\ rd.period >= 1000
    /\ rd.off0 = DecimalLineLen(rd.period) /\ rd.ret = 0

\* C10: a read copies at most len bytes, the bytes of the formatted value
\* from the cursor position on, and advances the cursor by the bytes copied.
C10_BoundedPartialRead ==
    (rd.kind = "read" /\ ~rd.fault) =>
        /\ Len(rd.data) <= rd.len
        /\ rd.data = SubSeq(Format(rd.period), rd.off0 + 1, rd.off0 + Len(rd.data))
        /\ rd.ret = Len(rd.data)
        /\ rd.off1 = rd.off0 + Len(rd.data)

\* C11: a read, whether it returns data, end of data or -EFAULT, leaves
\* period_us, last_edge, duty_cycle, the step counter and the line level as
\* they were; only the cursor may move.
C11_ReadLeavesState ==
    rd.kind = "read" =>
        /\ rd.frame
        /\ rd.period = period_us \/ Len(edges) > rd.nedges

C11_Witness ==
    /\ rd.kind = "read" /\ rd.ret = Len(rd.data) /\ rd.ret = 5
    /\ rd.off1 = rd.off0 + 5 /\ period_us = rd.period /\ last_edge > 0

\* ------------------------------------------------------------ claims: concurrency

\* C12: the value a read loads from period_us while the edge handler runs is
\* the value period_us held before that edge or the one that edge publishes,
\* never one word of each.
C12_ReadNeverTorn ==
    rreg.kind = "value" => <<rreg.hi, rreg.lo>> \in pubs

\* ------------------------------------------------------------ claims: load and unload

\* C13: whenever an acquisition of myrt_init fails, myrt_init returns with
\* everything the earlier steps acquired released again: no endpoint, line,
\* interrupt or timer stays held.
C13_FailedInitHoldsNothing ==
    lpc = "failed" => held = {}

\* C14: no edge handler and no tick runs before myrt_init has set last_edge,
\* and myrt_init never overwrites a last_edge the edge handler has written.
C14_DefaultsBeforeArming ==
    ~early /\ ~clobbered

Lines == {"gpio_pwm", "gpio_meas"}

\* C15: myrt_exit cancels the timer, then frees the interrupt, then releases
\* the two lines; once either line is released no tick and no edge handler is
\* running and none can start.
C15_QuietBeforeLinesReleased ==
    /\ (lpc \in {"exit", "unloaded"} /\ ~(Lines \subseteq held)) =>
           /\ running = {}
           /\ "timer" \notin held
           /\ "irq" \notin held
    /\ \A i, j \in 1..Len(released) :
           /\ released[i] = "timer" /\ released[j] \in Lines \cup {"irq"} => i < j
           /\ released[i] = "irq" /\ released[j] \in Lines => i < j

C15_Witness ==
    /\ lpc = "exit"
    /\ "gpio_pwm" \notin held /\ "gpio_meas" \in held
    /\ counter > 0 /\ Len(edges) > 0

\* ------------------------------------------------------------ claims: duty cycle and ticks

\* C16: a step of write() never changes the line or the step counter; the
\* line changes only in a tick, which reads duty_cycle once and drives the
\* line to (counter < that value); the first tick after a write has returned
\* with no other write in flight uses the value that write stored.
C16_DutyTakesEffectAtTick ==
    [][ /\ tickNo' = tickNo => (line' = line /\ counter' = counter)
        /\ tickNo' # tickNo =>
              /\ seen' = duty_cycle
              /\ line' = (IF counter' < seen' THEN 1 ELSE 0)
              /\ settled # <<>> => seen' = settled[1]
      ]_vars

C16_Witness ==
    /\ settled = <<DutyMax>> /\ seen = DutyMax
    /\ tickNo = Steps - 2 /\ counter = Steps - 1 /\ line = 1
    /\ \A w \in Writers : wpc[w] = "idle"

\* ------------------------------------------------------------ claims: write record

\* C17: a write logs "duty cycle set to N%" exactly when its payload parsed,
\* with N the clamped value it stored; a write whose payload does not parse
\* or that is rejected for its size logs nothing.
C17_RecordOnlyOnParse ==
    wr.kind = "write" =>
        LET parsed == /\ Len(wr.p) <= MsgSize - 1
                      /\ ~wr.fault
                      /\ IsDecimalText(wr.p)
                      /\ TextFitsInt(wr.p)
        IN  /\ (wr.log # <<>>) <=> parsed
            /\ wr.log # <<>> => wr.log = <<TextClamped(wr.p)>>

\* ------------------------------------------------------------ claims: timer

\* C18: a tick less than one interval late leaves the next expiry exactly one
\* interval after the one it ran for, so every expiry is start + n intervals;
\* a tick one or more intervals late runs the callback once (the step counter
\* advances by one) and leaves the next expiry strictly after the present.
C18_RescheduleFromExpiry ==
    /\ \E s \in StartTimes : (expires - s) % pwm_period = 0
    /\ expires > now
    /\ tk.kind = "tick" =>
          /\ tk.late < pwm_period => tk.next = tk.due + pwm_period
          /\ tk.late >= pwm_period =>
                /\ tk.c1 = (tk.c0 + 1) % Steps
                /\ tk.next > tk.at
                /\ tk.next - tk.at <= pwm_period

C18_Witness ==
    /\ tk.kind = "tick" /\ tk.late = 25000 /\ tk.next = tk.due + 3 * pwm_period
    /\ tk.c0 = 1 /\ tk.c1 = 2 /\ nTimed = 2

\* ------------------------------------------------------------ claims: concurrent writes

\* C19: when writes have run concurrently, their parse, test and store steps
\* interleaved in any order, and all have returned, duty_cycle is in 0..100
\* and is the value it had before them or the clamped value of a payload one
\* of them parsed.
C19_ConcurrentWritesSettle ==
    (\A w \in Writers : wpc[w] = "idle") =>
        /\ duty_cycle \in 0..DutyMax
        /\ duty_cycle \in {base} \cup cand

C19_Witness ==
    /\ \A w \in Writers : wpc[w] = "idle"
    /\ base = DutyDefault /\ cand = {0, 75, DutyMax} /\ duty_cycle = DutyMax

\* the payloads of the concurrent callers that parse
RaceParsed == {p \in RacePayloads : Len(p) <= MsgSize - 1 /\ IsDecimalText(p) /\ TextFitsInt(p)}

\* C20: whatever a tick reads from duty_cycle, also between the store of a
\* parsed value and its clamping, the level it drives is (counter < c) for c
\* the duty cycle before the writes or the clamped value of a written payload:
\* with the counter in 0..99 an unclamped value drives the level its clamped
\* value would.
C20_TickLevelAsIfClamped ==
    tickNo >= 0 =>
        LET c == IF seen < 0 THEN 0 ELSE IF seen > DutyMax THEN DutyMax ELSE seen
        IN  /\ counter \in 0..(Steps - 1)
            /\ line = (IF counter < c THEN 1 ELSE 0)
            /\ c \in {DutyDefault} \cup {TextClamped(p) : p \in RaceParsed}

C20_Witness ==
    /\ tickNo >= 0 /\ seen = 150 /\ duty_cycle = 150
    /\ counter = Steps - 1 /\ line = 1
    /\ \E w \in Writers : wpc[w] \in {"lo", "hi", "hiStore"} /\ wmsg[w] = Dec(<<1, 5, 0>>)

====
